---- MODULE Spec2Model ----
(***************************************************************************)
(* TARA Swing LENS scanner: the per-ticker analysis (analyze_stock) and    *)
(* the concurrent scan (run_scan) of src/streamlit_app.py and src/app.py.  *)
(*                                                                         *)
(* A bar is a record [year, open, close, volume] with integer fields; a    *)
(* data frame df is a sequence of bars, oldest first (df[Len(df)] is       *)
(* df.iloc[-1]).  Real-valued quantities are kept exact as pairs           *)
(* <<numerator, denominator>>; a denominator of 0 stands for NaN, which    *)
(* pandas produces for 0/0 and for a rolling mean over too few rows, and   *)
(* every comparison with NaN is false.  The comparisons of the code are    *)
(* decided on the exact values; the values the code rounds for display are *)
(* computed in IEEE-754 double arithmetic, as numpy does.  The status      *)
(* labels are written without the emoji prefix of the source strings.      *)
(***************************************************************************)
EXTENDS Integers, Sequences, FiniteSets, TLC

VARIABLES
    \* ---- one call of analyze_stock, stage by stage ----
    call,         \* [variant, ticker, payload]: the call and what yf.download gives
    apc,          \* position inside analyze_stock
    ran,          \* the stages of analyze_stock evaluated so far
    loc,          \* the local variables of analyze_stock
    ret,          \* the value analyze_stock returned
    \* ---- one call of run_scan ----
    variant,      \* which source file runs the scan
    ticker_list,  \* run_scan's argument
    max_threads,  \* run_scan's argument (streamlit_app.py only)
    pc,           \* position of the main thread inside run_scan
    fut,          \* the futures, by position in ticker_list
    started,      \* how many times each task was started by a worker
    collected,    \* futures already yielded by as_completed and processed
    results,      \* run_scan's results list
    skipped_log,  \* run_scan's skipped_log list (streamlit_app.py only)
    completed,    \* run_scan's completed counter
    bar           \* what the progress bar shows: <<completed, total>>, or BarEmpty

avars == <<call, apc, ran, loc, ret>>
svars == <<variant, ticker_list, max_threads, pc, fut, started, collected,
           results, skipped_log, completed, bar>>
vars == <<call, apc, ran, loc, ret, variant, ticker_list, max_threads, pc, fut,
          started, collected, results, skipped_log, completed, bar>>

----------------------------------------------------------------------------
(* Bounds of the model *)

\* bar series are tried up to this many bars above the variant's minimum
ExtraBars == 2
\* longest ticker list given to run_scan
MaxTickers == 3
\* largest max_threads given to run_scan
MaxThreads == 2

----------------------------------------------------------------------------
(* Program constants *)

Variants == {"streamlit_app", "app"}

MIN_BARS_STREAMLIT == 20
MIN_BARS_APP == 50
TURNOVER_FLOOR_STREAMLIT == 2500000
TURNOVER_FLOOR_APP == 5000000
PRICE_FLOOR_APP == 10
\* the floor streamlit_app.py documents for its liquidity check
PRICE_FLOOR_DOC == 20
LIQUIDITY_WINDOW == 5
CONSISTENCY_WINDOW == 20
lookback == 20
SMA_WINDOW == 50
DIAMOND_CONSISTENCY == 60
WATCHLIST_CONSISTENCY == 50
\* efficiency >= 0.30, as a percentage
DIAMOND_EFFICIENCY_PCT == 30
POOL_SIZE_APP == 50
PROGRESS_EVERY_STREAMLIT == 10
PROGRESS_EVERY_APP == 50

----------------------------------------------------------------------------
(* Arithmetic helpers *)

Abs(x) == IF x < 0 THEN -x ELSE x

Max(a, b) == IF a >= b THEN a ELSE b

\* s[lo] + ... + s[hi]
RECURSIVE SumRange(_, _, _)
SumRange(s, lo, hi) ==
    IF lo > hi THEN 0
    ELSE IF lo = hi THEN s[lo]
    ELSE LET mid == (lo + hi) \div 2
         IN  SumRange(s, lo, mid) + SumRange(s, mid + 1, hi)

\* Series.sum()
SumSeq(s) == SumRange(s, 1, Len(s))

\* the last k rows: df.iloc[-k:], Series.tail(k)
TailRows(s, k) == SubSeq(s, Max(1, Len(s) - k + 1), Len(s))

NaN == <<0, 0>>

IsNaN(r) == r[2] = 0

\* a / b as numpy computes it for b # 0, and 0/0 = NaN
Ratio(a, b) == IF b = 0 THEN NaN ELSE <<a, b>>

\* x > r for an integer x and a ratio r with a non-negative denominator
GreaterThan(x, r) == ~IsNaN(r) /\ x * r[2] > r[1]

\* r >= p/100 for a ratio r with a non-negative denominator
AtLeastPct(r, p) == ~IsNaN(r) /\ 100 * r[1] >= p * r[2]

\* r < x for a ratio r with a non-negative denominator and an integer x
LessThan(r, x) == ~IsNaN(r) /\ r[1] < x * r[2]

----------------------------------------------------------------------------
(* Double arithmetic *)

\* numpy and pandas compute with IEEE-754 doubles.  A natural number of any
\* size is a sequence of limbs, least significant first, without leading
\* zero limbs; a non-negative double is <<m, e>>, the number m * 2^e.
\* Operands are computed before the operation that uses them, as in the
\* code: { Op(x) : x \in {e} } computes e, then Op.
The(S) == CHOOSE x \in S : TRUE

LIMB == 32768

LIMB_BITS == 15

MANTISSA_BITS == 53

\* 2^k for k < LIMB_BITS
Pow2(k) == <<1, 2, 4, 8, 16, 32, 64, 128, 256, 512, 1024, 2048, 4096, 8192,
             16384>>[k + 1]

\* number of binary digits of a limb
BitsOfLimb(n) == Cardinality({ k \in 0..(LIMB_BITS - 1) : Pow2(k) <= n })

RECURSIVE BigOfInt(_)
BigOfInt(n) == IF n = 0 THEN <<>> ELSE <<n % LIMB>> \o BigOfInt(n \div LIMB)

RECURSIVE BigToInt(_)
BigToInt(a) == IF a = <<>> THEN 0 ELSE a[1] + LIMB * BigToInt(Tail(a))

RECURSIVE BigTrim(_)
BigTrim(a) ==
    IF a # <<>> /\ a[Len(a)] = 0 THEN BigTrim(SubSeq(a, 1, Len(a) - 1)) ELSE a

LimbAt(a, i) == IF i <= Len(a) THEN a[i] ELSE 0

RECURSIVE BigAddFrom(_, _, _, _)
BigAddFrom(a, b, i, carry) ==
    IF i > Len(a) /\ i > Len(b) THEN (IF carry = 0 THEN <<>> ELSE <<carry>>)
    ELSE LET s == LimbAt(a, i) + LimbAt(b, i) + carry
         IN  <<s % LIMB>> \o BigAddFrom(a, b, i + 1, s \div LIMB)

BigAdd(a, b) == BigAddFrom(a, b, 1, 0)

RECURSIVE BigSubFrom(_, _, _, _)
BigSubFrom(a, b, i, borrow) ==
    IF i > Len(a) THEN <<>>
    ELSE LET d == a[i] - LimbAt(b, i) - borrow
         IN  <<IF d < 0 THEN d + LIMB ELSE d>>
             \o BigSubFrom(a, b, i + 1, IF d < 0 THEN 1 ELSE 0)

\* a - b, for a >= b
BigSub(a, b) == BigTrim(BigSubFrom(a, b, 1, 0))

RECURSIVE BigCmpFrom(_, _, _)
BigCmpFrom(a, b, i) ==
    IF i = 0 THEN 0
    ELSE IF a[i] > b[i] THEN 1
    ELSE IF a[i] < b[i] THEN -1
    ELSE BigCmpFrom(a, b, i - 1)

\* -1, 0, 1 as a < b, a = b, a > b
BigCmp(a, b) ==
    IF Len(a) > Len(b) THEN 1
    ELSE IF Len(a) < Len(b) THEN -1
    ELSE BigCmpFrom(a, b, Len(a))

RECURSIVE BigMulSmallFrom(_, _, _, _)
BigMulSmallFrom(a, c, i, carry) ==
    IF i > Len(a) THEN (IF carry = 0 THEN <<>> ELSE <<carry>>)
    ELSE LET p == a[i] * c + carry
         IN  <<p % LIMB>> \o BigMulSmallFrom(a, c, i + 1, p \div LIMB)

\* a * c for one limb c
BigMulSmall(a, c) == IF c = 0 THEN <<>> ELSE BigMulSmallFrom(a, c, 1, 0)

RECURSIVE BigMul(_, _)
BigMul(a, b) ==
    IF a = <<>> \/ b = <<>> THEN <<>>
    ELSE BigTrim(BigAdd(BigMulSmall(a, b[1]), <<0>> \o BigMul(a, Tail(b))))

\* a * 2^k
BigShl(a, k) ==
    IF a = <<>> THEN <<>>
    ELSE [i \in 1..(k \div LIMB_BITS) |-> 0] \o BigMulSmall(a, Pow2(k % LIMB_BITS))

RECURSIVE BigDivSmallFrom(_, _, _, _)
BigDivSmallFrom(a, c, i, rem) ==
    IF i = 0 THEN <<>>
    ELSE LET cur == rem * LIMB + a[i]
         IN  BigDivSmallFrom(a, c, i - 1, cur % c) \o <<cur \div c>>

\* a \div 2^k
BigShr(a, k) ==
    LET whole == k \div LIMB_BITS
        rest == IF whole >= Len(a) THEN <<>> ELSE SubSeq(a, whole + 1, Len(a))
    IN  BigTrim(BigDivSmallFrom(rest, Pow2(k % LIMB_BITS), Len(rest), 0))

\* number of binary digits of a
BigBits(a) ==
    IF a = <<>> THEN 0 ELSE LIMB_BITS * (Len(a) - 1) + BitsOfLimb(a[Len(a)])

\* binary digit i of a, digit 0 the least significant
BigBit(a, i) == (LimbAt(a, i \div LIMB_BITS + 1) \div Pow2(i % LIMB_BITS)) % 2

\* the largest d = base + x * unit, x < 8, with b * d <= a
DigitStage(a, b, base, unit) ==
    base + unit * Cardinality({ x \in 1..7 :
                                  BigCmp(BigMulSmall(b, base + x * unit), a) <= 0 })

\* a \div b for b > 0 and a < b * LIMB: the digit, three bits at a time
QuotientDigit(a, b) ==
    IF BigCmp(a, b) < 0 THEN 0
    ELSE The({ DigitStage(a, b, d3, 1) :
                 d3 \in { DigitStage(a, b, d6, 8) :
                   d6 \in { DigitStage(a, b, d9, 64) :
                     d9 \in { DigitStage(a, b, d12, 512) :
                       d12 \in {DigitStage(a, b, 0, 4096)} } } } })

\* one step of long division: h is <<quotient, remainder>> of the limbs above
\* limb, the result the same with limb included
BigDivStep(h, limb, b) ==
    LET cur == BigTrim(<<limb>> \o h[2])
        d == QuotientDigit(cur, b)
    IN  <<BigTrim(<<d>> \o h[1]), BigSub(cur, BigMulSmall(b, d))>>

\* <<a \div b, a % b>> for b > 0, by long division, one limb at a time
RECURSIVE BigDivMod(_, _)
BigDivMod(a, b) ==
    IF a = <<>> THEN <<<<>>, <<>>>>
    ELSE The({ BigDivStep(h, a[1], b) : h \in {BigDivMod(Tail(a), b)} })

\* n \div 2^sh rounded to nearest, ties to even; sticky: the number rounded
\* is a little more than n
RoundShift(n, sh, sticky) ==
    LET q == BigShr(n, sh)
        c == BigCmp(BigSub(n, BigShl(q, sh)), BigShl(<<1>>, sh - 1))
        up == c = 1 \/ (c = 0 /\ (sticky \/ BigBit(q, 0) = 1))
    IN  IF up THEN BigAdd(q, <<1>>) ELSE q

\* the double nearest to n * 2^e (a little more when sticky), ties to even
FRound(n, e, sticky) ==
    LET sh == BigBits(n) - MANTISSA_BITS
    IN  IF sh <= 0 THEN <<n, e>> ELSE <<RoundShift(n, sh, sticky), e + sh>>

FOfInt(n) == <<BigOfInt(n), 0>>

\* a / b in doubles, for b # 0
FDiv(a, b) ==
    LET k == Max(0, MANTISSA_BITS + 2 + BigBits(b[1]) - BigBits(a[1]))
    IN  IF a[1] = <<>> THEN FOfInt(0)
        ELSE The({ FRound(d[1], a[2] - b[2] - k, d[2] # <<>>) :
                     d \in {BigDivMod(BigShl(a[1], k), b[1])} })

\* a * b in doubles
FMul(a, b) == The({ FRound(n, a[2] + b[2], FALSE) : n \in {BigMul(a[1], b[1])} })

\* -1, 0, 1 as a < b, a = b, a > b
FCmp(a, b) ==
    LET e == IF a[2] < b[2] THEN a[2] ELSE b[2]
    IN  BigCmp(BigShl(a[1], a[2] - e), BigShl(b[1], b[2] - e))

\* a - b in doubles, for a >= b
FSub(a, b) ==
    LET e == IF a[2] < b[2] THEN a[2] ELSE b[2]
    IN  The({ FRound(n, e, FALSE) :
                n \in {BigSub(BigShl(a[1], a[2] - e), BigShl(b[1], b[2] - e))} })

\* numpy.rint: the nearest integer, ties to even
Rint(a) ==
    IF a[2] >= 0 THEN BigToInt(BigShl(a[1], a[2]))
    ELSE BigToInt(RoundShift(a[1], -a[2], FALSE))

\* numpy's round(x, digits) for scale = 10^digits, in units of 1 / scale:
\* rint(x * scale) / scale
NpRound(x, scale) == The({ Rint(y) : y \in {FMul(x, FOfInt(scale))} })

\* the double of the ratio r: numerator / denominator
DoubleOf(r) == The({ FDiv(a, b) : a \in {FOfInt(r[1])}, b \in {FOfInt(r[2])} })

----------------------------------------------------------------------------
(* analyze_stock: the stages as pure operators *)

Tickers == {"INFY.NS", "TCS.NS"}

\* str.replace(old, new): every occurrence of old, left to right
RECURSIVE Replace(_, _, _)
Replace(s, old, new) ==
    IF Len(s) < Len(old) THEN s
    ELSE IF SubSeq(s, 1, Len(old)) = old
    THEN new \o Replace(SubSeq(s, Len(old) + 1, Len(s)), old, new)
    ELSE SubSeq(s, 1, 1) \o Replace(Tail(s), old, new)

\* ticker.replace(".NS", "")
Symbol(t) == Replace(t, ".NS", "")

None == [IsNone |-> TRUE]

\* the builtin exception classes of Python 3.11, each with its direct bases
BuiltinBases ==
    [ ArithmeticError |-> <<"Exception">>,
      AssertionError |-> <<"Exception">>, AttributeError |-> <<"Exception">>,
      BaseException |-> <<>>, BaseExceptionGroup |-> <<"BaseException">>,
      BlockingIOError |-> <<"OSError">>,
      BrokenPipeError |-> <<"ConnectionError">>,
      BufferError |-> <<"Exception">>, BytesWarning |-> <<"Warning">>,
      ChildProcessError |-> <<"OSError">>,
      ConnectionAbortedError |-> <<"ConnectionError">>,
      ConnectionError |-> <<"OSError">>,
      ConnectionRefusedError |-> <<"ConnectionError">>,
      ConnectionResetError |-> <<"ConnectionError">>,
      DeprecationWarning |-> <<"Warning">>, EOFError |-> <<"Exception">>,
      EncodingWarning |-> <<"Warning">>, Exception |-> <<"BaseException">>,
      ExceptionGroup |-> <<"BaseExceptionGroup", "Exception">>,
      FileExistsError |-> <<"OSError">>, FileNotFoundError |-> <<"OSError">>,
      FloatingPointError |-> <<"ArithmeticError">>,
      FutureWarning |-> <<"Warning">>, GeneratorExit |-> <<"BaseException">>,
      ImportError |-> <<"Exception">>, ImportWarning |-> <<"Warning">>,
      IndentationError |-> <<"SyntaxError">>,
      IndexError |-> <<"LookupError">>, InterruptedError |-> <<"OSError">>,
      IsADirectoryError |-> <<"OSError">>, KeyError |-> <<"LookupError">>,
      KeyboardInterrupt |-> <<"BaseException">>,
      LookupError |-> <<"Exception">>, MemoryError |-> <<"Exception">>,
      ModuleNotFoundError |-> <<"ImportError">>,
      NameError |-> <<"Exception">>, NotADirectoryError |-> <<"OSError">>,
      NotImplementedError |-> <<"RuntimeError">>,
      OSError |-> <<"Exception">>, OverflowError |-> <<"ArithmeticError">>,
      PendingDeprecationWarning |-> <<"Warning">>,
      PermissionError |-> <<"OSError">>,
      ProcessLookupError |-> <<"OSError">>,
      RecursionError |-> <<"RuntimeError">>,
      ReferenceError |-> <<"Exception">>, ResourceWarning |-> <<"Warning">>,
      RuntimeError |-> <<"Exception">>, RuntimeWarning |-> <<"Warning">>,
      StopAsyncIteration |-> <<"Exception">>,
      StopIteration |-> <<"Exception">>, SyntaxError |-> <<"Exception">>,
      SyntaxWarning |-> <<"Warning">>, SystemError |-> <<"Exception">>,
      SystemExit |-> <<"BaseException">>,
      TabError |-> <<"IndentationError">>, TimeoutError |-> <<"OSError">>,
      TypeError |-> <<"Exception">>, UnboundLocalError |-> <<"NameError">>,
      UnicodeDecodeError |-> <<"UnicodeError">>,
      UnicodeEncodeError |-> <<"UnicodeError">>,
      UnicodeError |-> <<"ValueError">>,
      UnicodeTranslateError |-> <<"UnicodeError">>,
      UnicodeWarning |-> <<"Warning">>, UserWarning |-> <<"Warning">>,
      ValueError |-> <<"Exception">>, Warning |-> <<"Exception">>,
      ZeroDivisionError |-> <<"ArithmeticError">> ]

\* the class c and every class it derives from
RECURSIVE Ancestors(_)
Ancestors(c) ==
    {c} \cup UNION { Ancestors(BuiltinBases[c][k]) : k \in DOMAIN BuiltinBases[c] }

\* isinstance(e, Exception)
IsException(exc) == "Exception" \in exc.bases

\* cls(*args) for a builtin class: the exception object with its class, the
\* classes it is an instance of and the constructor's arguments.  The
\* arguments are strings; an exception group takes a message and the
\* sequence of its exceptions, and BaseExceptionGroup(...) of Exceptions
\* only is an ExceptionGroup
Exc(cls, args) ==
    LET c == IF /\ cls = "BaseExceptionGroup"
                /\ Len(args) = 2
                /\ \A k \in DOMAIN args[2] : IsException(args[2][k])
             THEN "ExceptionGroup"
             ELSE cls
    IN  [cls |-> c, bases |-> Ancestors(c), args |-> args]

\* cls(*args) for a class defined outside builtins as 'class cls(base)'
\* that keeps the __str__ of its base
ExcSubclass(cls, base, args) ==
    [cls |-> cls, bases |-> {cls} \cup Ancestors(base), args |-> args]

NoExc == [cls |-> "", bases |-> {}, args |-> <<>>]

\* df['Volume'] on a frame without the column
MissingColumn == Exc("KeyError", <<"Volume">>)

HasChar(s, c) == \E k \in 1..Len(s) : SubSeq(s, k, k) = c

\* repr of a string picks the quote: double quotes when the string holds an
\* apostrophe and no double quote
ReprQuote(s) == IF HasChar(s, "'") /\ ~HasChar(s, "\"") THEN "\"" ELSE "'"

\* one character inside repr's quotes q
ReprChar(c, q) ==
    IF c = "\\" THEN "\\\\"
    ELSE IF c = q THEN "\\" \o q
    ELSE IF c = "\n" THEN "\\n"
    ELSE IF c = "\t" THEN "\\t"
    ELSE IF c = "\r" THEN "\\r"
    ELSE IF c = "\f" THEN "\\x0c"
    ELSE c

RECURSIVE ReprBody(_, _)
ReprBody(s, q) ==
    IF s = "" THEN ""
    ELSE ReprChar(SubSeq(s, 1, 1), q) \o ReprBody(Tail(s), q)

\* repr(s) of a string of printable characters and \\, \n, \t, \r, \f
Repr(s) == ReprQuote(s) \o ReprBody(s, ReprQuote(s)) \o ReprQuote(s)

RECURSIVE ReprItems(_)
ReprItems(args) ==
    IF Len(args) = 1 THEN Repr(args[1])
    ELSE Repr(args[1]) \o ", " \o ReprItems(Tail(args))

\* str(args) of a tuple of two or more strings
ReprTuple(args) == "(" \o ReprItems(args) \o ")"

\* SyntaxError(msg, details) unpacks details, here a string of 4 or 6
\* characters, into filename, lineno, ...: the base name of the filename
SyntaxFile(details) ==
    IF SubSeq(details, 1, 1) = "/" THEN "" ELSE SubSeq(details, 1, 1)

\* str(e) of an exception Python's constructor accepted, by the __str__ the
\* class inherits: an exception group shows its message and the number of
\* its exceptions, OSError built from 2 to 5 arguments shows errno, strerror
\* and the file names, SyntaxError its message (and file), KeyError the repr
\* of a single key; BaseException shows nothing, the single argument, or
\* the tuple of the arguments
Str(exc) ==
    LET args == exc.args
        n == Len(args)
    IN  IF "BaseExceptionGroup" \in exc.bases
        THEN args[1] \o " (" \o ToString(Len(args[2])) \o " sub-exception"
             \o (IF Len(args[2]) = 1 THEN "" ELSE "s") \o ")"
        ELSE IF "OSError" \in exc.bases /\ n \in 2..5
        THEN "[Errno " \o args[1] \o "] " \o args[2]
             \o (IF n >= 3 THEN ": " \o Repr(args[3]) ELSE "")
             \o (IF n = 5 THEN " -> " \o Repr(args[5]) ELSE "")
        ELSE IF "SyntaxError" \in exc.bases
        THEN IF n = 0 THEN "None"
             ELSE IF n = 2 THEN args[1] \o " (" \o SyntaxFile(args[2]) \o ")"
             ELSE args[1]
        ELSE IF n = 0 THEN ""
        ELSE IF n = 1
        THEN IF "KeyError" \in exc.bases THEN Repr(args[1]) ELSE args[1]
        ELSE ReprTuple(args)

\* f"Error: {str(e)}"
ErrorReason(exc) == "Error: " \o Str(exc)

\* a call that ended with an exception: Future.result() re-raises it
Raised(exc) == [Raised |-> exc]

\* bug variant of ExceptHandler: the exception leaves analyze_stock
ExceptHandler_Propagates(v, t, exc) == Raised(exc)

\* the except clause around the whole body of analyze_stock:
\* except Exception as e  /  except:
ExceptHandler(v, t, exc) ==
    IF v = "streamlit_app"
    THEN IF IsException(exc)
         THEN [Ticker |-> t, Reason |-> ErrorReason(exc)]
         ELSE Raised(exc)
    ELSE None

\* what a filtered-out ticker returns
SkipRecord(v, t, reason) ==
    IF v = "streamlit_app" THEN [Ticker |-> t, Reason |-> reason] ELSE None

MinBars(v) == IF v = "streamlit_app" THEN MIN_BARS_STREAMLIT ELSE MIN_BARS_APP

\* bug variant of InsufficientData: the length test is off by one
InsufficientData_OffByOne(v, df) == Len(df) < MinBars(v) - 1

\* CHECK 1: df.empty or len(df) < 20  /  len(df) < 50
InsufficientData(v, df) ==
    IF v = "streamlit_app"
    THEN Len(df) = 0 \/ Len(df) < MIN_BARS_STREAMLIT
    ELSE Len(df) < MIN_BARS_APP

\* df['Close'].iloc[-1]
Price(df) == df[Len(df)].close

\* df['Volume'].iloc[-5:].mean()
AvgVol(df) ==
    LET last == TailRows(df, LIQUIDITY_WINDOW)
    IN  Ratio(SumSeq([i \in 1..Len(last) |-> last[i].volume]), Len(last))

\* avg_vol * price
Turnover(df) == <<AvgVol(df)[1] * Price(df), AvgVol(df)[2]>>

\* CHECK 2: (avg_vol * price) < 2500000  /  (avg_vol * price) < 5000000 or price < 10
Illiquid(v, df) ==
    IF v = "streamlit_app"
    THEN LessThan(Turnover(df), TURNOVER_FLOOR_STREAMLIT)
    ELSE LessThan(Turnover(df), TURNOVER_FLOOR_APP) \/ Price(df) < PRICE_FLOOR_APP

\* bug variant of CurrentYear: the calendar year after the last bar's
CurrentYear_Calendar(df) == df[Len(df)].year + 1

\* df.index[-1].year
CurrentYear(df) == df[Len(df)].year

\* df[df.index.year == current_year]
YearPartition(df) == SelectSeq(df, LAMBDA b : b.year = CurrentYear(df))

\* ((Close * Volume).cumsum() / Volume.cumsum()).iloc[-1]
YearlyVWAP(df_y) ==
    Ratio(SumSeq([i \in 1..Len(df_y) |-> df_y[i].close * df_y[i].volume]),
          SumSeq([i \in 1..Len(df_y) |-> df_y[i].volume]))

\* df['Close'].rolling(50).mean().iloc[-1]
RollingMean(df) ==
    IF Len(df) < SMA_WINDOW THEN NaN
    ELSE LET last == TailRows(df, SMA_WINDOW)
         IN  <<SumSeq([i \in 1..Len(last) |-> last[i].close]), SMA_WINDOW>>

\* (df['Close'] > df['Open']).astype(int).tail(20).sum()
GreenCandles(df) ==
    LET last == TailRows(df, CONSISTENCY_WINDOW)
    IN  SumSeq([i \in 1..Len(last) |->
                    IF last[i].close > last[i].open THEN 1 ELSE 0])

\* (green_candles / 20) * 100
Consistency(green) == (green * 100) \div CONSISTENCY_WINDOW

\* abs(df['Close'].iloc[-1] - df['Close'].iloc[-lookback])
NetChange(df) == Abs(df[Len(df)].close - df[Len(df) - lookback + 1].close)

\* abs(df['Close'].diff()): the first row is NaN, which sum() skips
AbsDiff(df) ==
    [i \in 1..Len(df) |-> IF i = 1 THEN 0 ELSE Abs(df[i].close - df[i - 1].close)]

\* abs(df['Close'].diff()).tail(lookback).sum()
TotalPath(df) == SumSeq(TailRows(AbsDiff(df), lookback))

\* bug variant of Efficiency: the zero-path guard is missing and the
\* division 0/0 yields the ratio of a perfect path
Efficiency_NoGuard(net, path) == IF path # 0 THEN <<net, path>> ELSE <<1, 1>>

\* net / path if path != 0 else 0
Efficiency(net, path) == IF path # 0 THEN <<net, path>> ELSE <<0, 1>>

\* bug variant of Status: the Diamond branch forgets the price condition
Status_NoPriceCheck(v, price, baseline, consistency, efficiency) ==
    IF consistency >= DIAMOND_CONSISTENCY
       /\ AtLeastPct(efficiency, DIAMOND_EFFICIENCY_PCT)
    THEN "INSTITUTIONAL BUY"
    ELSE IF GreaterThan(price, baseline) /\ consistency >= WATCHLIST_CONSISTENCY
    THEN "WATCHLIST"
    ELSE IF v = "streamlit_app" /\ GreaterThan(price, baseline)
    THEN "TRENDING (Test)"
    ELSE "NEUTRAL"

\* the if / elif chain that assigns status
Status(v, price, baseline, consistency, efficiency) ==
    IF GreaterThan(price, baseline) /\ consistency >= DIAMOND_CONSISTENCY
       /\ AtLeastPct(efficiency, DIAMOND_EFFICIENCY_PCT)
    THEN "INSTITUTIONAL BUY"
    ELSE IF GreaterThan(price, baseline) /\ consistency >= WATCHLIST_CONSISTENCY
    THEN "WATCHLIST"
    ELSE IF v = "streamlit_app" /\ GreaterThan(price, baseline)
    THEN "TRENDING (Test)"
    ELSE "NEUTRAL"

\* round(x, 2) of the double of a non-negative ratio, in hundredths
Round2(r) ==
    IF IsNaN(r) THEN NaN ELSE The({ NpRound(x, 100) : x \in {DoubleOf(r)} })

\* round(((price - current_yvwap) / current_yvwap) * 100, 1), in tenths
\* <<|a - b|, a >= b>> in doubles
FDistance(a, b) ==
    IF FCmp(a, b) >= 0 THEN <<FSub(a, b), TRUE>> ELSE <<FSub(b, a), FALSE>>

\* round(((price - current_yvwap) / current_yvwap) * 100, 1), in tenths
YVWAPPercent(price, baseline) ==
    IF IsNaN(baseline) THEN NaN
    ELSE The({ IF t[2] THEN t[1] ELSE -t[1] :
                 t \in { <<NpRound(c[1], 10), c[2]>> :
                   c \in { <<FMul(q[1], FOfInt(100)), q[2]>> :
                     q \in { <<FDiv(d[1][1], d[2]), d[1][2]>> :
                       d \in { <<FDistance(FOfInt(price), v), v>> :
                         v \in {DoubleOf(baseline)} } } } } })

\* the dictionary returned for a classified ticker; Efficiency and YVWAP
\* in hundredths, "YVWAP %" in tenths of a percent
ResultRecord(v, t, price, status, consistency, efficiency, baseline) ==
    IF v = "streamlit_app"
    THEN [Symbol |-> Symbol(t), Price |-> price, Status |-> status,
          Consistency |-> consistency,
          Efficiency |-> Round2(efficiency),
          YVWAP |-> Round2(baseline)]
    ELSE [Symbol |-> Symbol(t), Price |-> price, Status |-> status,
          Consistency |-> consistency,
          Efficiency |-> Round2(efficiency),
          YVWAP_pct |-> YVWAPPercent(price, baseline)]

\* the baseline the classification compares price with; the second
\* component tells whether the empty-partition branch was taken
Baseline(v, df) ==
    IF YearPartition(df) = <<>>
    THEN <<RollingMean(df), TRUE>>
    ELSE <<YearlyVWAP(YearPartition(df)), FALSE>>

\* analyze_stock after the data checks: baseline, factors, diagnosis
Diagnose(v, t, df) ==
    LET base == Baseline(v, df)
        consistency == Consistency(GreenCandles(df))
        efficiency == Efficiency(NetChange(df), TotalPath(df))
        status == Status(v, Price(df), base[1], consistency, efficiency)
    IN  IF v = "app" /\ base[2] THEN None
        ELSE IF status = "NEUTRAL" THEN SkipRecord(v, t, "Failed Criteria")
        ELSE ResultRecord(v, t, Price(df), status, consistency, efficiency, base[1])

\* analyze_stock(ticker), given what yf.download does for the ticker
AnalyzeStock(v, t, p) ==
    IF p.kind = "raise" THEN ExceptHandler(v, t, p.exc)
    ELSE IF InsufficientData(v, p.df) THEN SkipRecord(v, t, "No Data/Too New")
    ELSE IF ~p.cols THEN ExceptHandler(v, t, MissingColumn)
    ELSE IF Illiquid(v, p.df) THEN SkipRecord(v, t, "Illiquid")
    ELSE Diagnose(v, t, p.df)

\* "Status" in res  /  if data
IsResult(res) == "Status" \in DOMAIN res

IsRaised(res) == "Raised" \in DOMAIN res

IsSkip(v, res) ==
    IF v = "streamlit_app"
    THEN DOMAIN res = {"Ticker", "Reason"}
    ELSE res = None

----------------------------------------------------------------------------
(* The bar series given to analyze_stock *)

Shapes == {"flat", "rise", "fall", "zigzag"}

\* a one-off move added to the close: "edge" lands on the bar that is
\* df.iloc[-lookback], "old" on the bar before it
Jumps == {<<"none", 0>>, <<"edge", 100>>, <<"old", 1>>, <<"old", 100>>}

BasePrices == {5, 100}

Greens == {9, 10, 11, 12, 20}

VolumePatterns == {<<"uniform", 24999>>, <<"uniform", 25000>>, <<"uniform", 50000>>,
                   <<"uniform", 1000000>>, <<"lastzero", 100000>>}

YearSplits == {"all", "half", "last"}

\* the change of close from bar i - 1 to bar i of an n-bar series
Delta(n, i, shape, jump) ==
    LET j == n - i
        step == CASE shape = "flat" -> 0
                  [] shape = "rise" -> 1
                  [] shape = "fall" -> -1
                  [] OTHER -> IF j % 2 = 0 THEN 3 ELSE -2
        extra == IF (jump[1] = "edge" /\ j = lookback - 1) \/ (jump[1] = "old" /\ j = lookback)
                 THEN jump[2] ELSE 0
    IN  step + extra

\* the closes of bars lo..hi of an n-bar series, prev the close before bar lo
RECURSIVE ClosesFrom(_, _, _, _, _, _)
ClosesFrom(n, lo, hi, prev, shape, jump) ==
    IF lo > hi THEN <<>>
    ELSE IF lo = hi THEN <<prev + (IF lo = 1 THEN 0 ELSE Delta(n, lo, shape, jump))>>
    ELSE LET mid == (lo + hi) \div 2
             left == ClosesFrom(n, lo, mid, prev, shape, jump)
         IN  left \o ClosesFrom(n, mid + 1, hi, left[Len(left)], shape, jump)

\* the closes of an n-bar series that starts at p0
Closes(n, p0, shape, jump) == ClosesFrom(n, 1, n, p0, shape, jump)

\* an n-bar series: closes from p0 by Delta, the g most recent bars green and
\* the other recent ones red, volumes by vol, the year change by split
Series(n, p0, shape, jump, g, vol, split) ==
    LET close == Closes(n, p0, shape, jump)
        inYear == CASE split = "all" -> n
                    [] split = "half" -> n \div 2
                    [] OTHER -> 1
    IN  [i \in 1..n |->
            [year   |-> IF n - i < inYear THEN 2026 ELSE 2025,
             open   |-> IF n - i < g THEN close[i] - 1
                        ELSE IF n - i < CONSISTENCY_WINDOW THEN close[i] + 1 ELSE close[i],
             close  |-> close[i],
             volume |-> IF vol[1] = "lastzero" /\ i = n THEN 0 ELSE vol[2]]]

\* every bar has positive prices, and the traded value of the series stays
\* within the integers of the model
ValidSeries(s) ==
    \A i \in 1..Len(s) :
        /\ s[i].close > 0
        /\ s[i].open > 0
        /\ s[i].close * s[i].volume <= 1000000000 \div Len(s)

Lengths(v) == {0, MinBars(v) - 1} \cup (MinBars(v)..(MinBars(v) + ExtraBars))

SeriesFamily(v) ==
    { s \in { Series(n, p0, shape, jump, g, vol, split) :
                n \in Lengths(v), p0 \in BasePrices, shape \in Shapes,
                jump \in Jumps, g \in Greens, vol \in VolumePatterns,
                split \in YearSplits } : ValidSeries(s) }

\* what yf.download does: it raises, or it returns a frame (cols: the frame
\* has the Volume column)
RaisePayload(exc) == [kind |-> "raise", exc |-> exc, cols |-> FALSE, df |-> <<>>]

FramePayload(s) == [kind |-> "frame", exc |-> NoExc, cols |-> TRUE, df |-> s]

MalformedPayload(s) == [kind |-> "frame", exc |-> NoExc, cols |-> FALSE, df |-> s]

\* the exceptions yf.download is made to raise: errors of the network (one
\* of them of a class of the HTTP library, which derives from OSError) and
\* of the parsing
DownloadErrors ==
    {Exc("ConnectionError", <<"timed out">>), Exc("ValueError", <<>>),
     Exc("KeyError", <<"it's">>), Exc("TimeoutError", <<"110", "timed out">>),
     ExcSubclass("RequestException", "OSError", <<"timed out">>)}

\* a steadily rising, liquid, all-green series of the variant's minimum length
RisingSeries(v) ==
    Series(MinBars(v), 100, "rise", <<"none", 0>>, 20, <<"uniform", 100000>>, "all")

AnalyzeInputs(v) ==
    { RaisePayload(e) : e \in DownloadErrors }
    \cup {MalformedPayload(RisingSeries(v))}
    \cup { FramePayload(s) : s \in SeriesFamily(v) }

----------------------------------------------------------------------------
(* analyze_stock, one stage per step *)

Stages == {"fetch", "sufficiency", "liquidity", "baseline", "consistency",
           "efficiency", "diagnosis"}

NoCall == [variant |-> "none", ticker |-> "", payload |-> FramePayload(<<>>)]

\* no local variable is bound yet; loc maps the bound ones to their values
NoLocals == <<>>

ScanIdle ==
    /\ variant = "none"
    /\ ticker_list = <<>>
    /\ max_threads = 0
    /\ pc = "idle"
    /\ fut = <<>>
    /\ started = <<>>
    /\ collected = {}
    /\ results = <<>>
    /\ skipped_log = <<>>
    /\ completed = 0
    /\ bar = <<0, 0>>

AnalyzeInit ==
    /\ \E v \in Variants : \E p \in AnalyzeInputs(v) :
           call = [variant |-> v, ticker |-> "INFY.NS", payload |-> p]
    /\ apc = "fetch"
    /\ ran = {}
    /\ loc = NoLocals
    /\ ret = None
    /\ ScanIdle

\* the stage returns r from analyze_stock
Return(r) == ret' = r /\ apc' = "done"

\* df = yf.download(...)
Fetch ==
    /\ apc = "fetch"
    /\ ran' = ran \cup {"fetch"}
    /\ IF call.payload.kind = "raise"
       THEN Return(ExceptHandler(call.variant, call.ticker, call.payload.exc))
       ELSE apc' = "sufficiency" /\ ret' = ret
    /\ UNCHANGED <<call, loc>>
    /\ UNCHANGED svars

\* CHECK 1: data existence
Sufficiency ==
    /\ apc = "sufficiency"
    /\ ran' = ran \cup {"sufficiency"}
    /\ IF InsufficientData(call.variant, call.payload.df)
       THEN Return(SkipRecord(call.variant, call.ticker, "No Data/Too New"))
       ELSE apc' = "liquidity" /\ ret' = ret
    /\ UNCHANGED <<call, loc>>
    /\ UNCHANGED svars

\* CHECK 2: liquidity
Liquidity ==
    /\ apc = "liquidity"
    /\ ran' = ran \cup {"liquidity"}
    /\ IF ~call.payload.cols
       THEN Return(ExceptHandler(call.variant, call.ticker, MissingColumn))
            /\ loc' = loc
       ELSE /\ loc' = [avg_vol |-> AvgVol(call.payload.df),
                        price |-> Price(call.payload.df)] @@ loc
            /\ IF Illiquid(call.variant, call.payload.df)
               THEN Return(SkipRecord(call.variant, call.ticker, "Illiquid"))
               ELSE apc' = "baseline" /\ ret' = ret
    /\ UNCHANGED call
    /\ UNCHANGED svars

\* yearly VWAP of the current-year partition, or the empty-partition branch
BaselineStage ==
    /\ apc = "baseline"
    /\ ran' = ran \cup {"baseline"}
    /\ LET base == Baseline(call.variant, call.payload.df)
       IN  /\ loc' = [df_y |-> Len(YearPartition(call.payload.df)),
                       fallback |-> base[2],
                       current_yvwap |-> base[1]] @@ loc
           /\ IF call.variant = "app" /\ base[2]
              THEN Return(None)
              ELSE apc' = "consistency" /\ ret' = ret
    /\ UNCHANGED call
    /\ UNCHANGED svars

\* FACTOR 1: consistency
ConsistencyStage ==
    /\ apc = "consistency"
    /\ ran' = ran \cup {"consistency"}
    /\ loc' = [green_candles |-> GreenCandles(call.payload.df),
                consistency |-> Consistency(GreenCandles(call.payload.df))] @@ loc
    /\ apc' = "efficiency"
    /\ UNCHANGED <<call, ret>>
    /\ UNCHANGED svars

\* FACTOR 2: efficiency
EfficiencyStage ==
    /\ apc = "efficiency"
    /\ ran' = ran \cup {"efficiency"}
    /\ loc' = [net |-> NetChange(call.payload.df),
                path |-> TotalPath(call.payload.df),
                efficiency |-> Efficiency(NetChange(call.payload.df),
                                          TotalPath(call.payload.df))] @@ loc
    /\ apc' = "diagnosis"
    /\ UNCHANGED <<call, ret>>
    /\ UNCHANGED svars

\* status assignment and the returned dictionary
Diagnosis ==
    /\ apc = "diagnosis"
    /\ ran' = ran \cup {"diagnosis"}
    /\ LET status == Status(call.variant, loc.price, loc.current_yvwap,
                            loc.consistency, loc.efficiency)
       IN  /\ loc' = [status |-> status] @@ loc
           /\ IF status = "NEUTRAL"
              THEN Return(SkipRecord(call.variant, call.ticker, "Failed Criteria"))
              ELSE Return(ResultRecord(call.variant, call.ticker, loc.price, status,
                                       loc.consistency, loc.efficiency,
                                       loc.current_yvwap))
    /\ UNCHANGED call
    /\ UNCHANGED svars

AnalyzeNext ==
    \/ Fetch
    \/ Sufficiency
    \/ Liquidity
    \/ BaselineStage
    \/ ConsistencyStage
    \/ EfficiencyStage
    \/ Diagnosis

AnalyzeSpec == AnalyzeInit /\ [][AnalyzeNext]_vars

\* the staged run returns what the one-shot operator computes
StagesAgree ==
    apc = "done" => ret = AnalyzeStock(call.variant, call.ticker, call.payload)

----------------------------------------------------------------------------
(* run_scan *)

\* sequences over S of length 0..n
RECURSIVE SeqsUpTo(_, _)
SeqsUpTo(S, n) ==
    IF n = 0 THEN {<<>>}
    ELSE LET shorter == SeqsUpTo(S, n - 1)
         IN  shorter \cup { Append(s, x) : s \in { t \in shorter : Len(t) = n - 1 }, x \in S }

\* what yf.download may do for a ticker during a scan
ScanPayloads(v) ==
    {RaisePayload(Exc("ConnectionError", <<"timed out">>)), FramePayload(<<>>),
     MalformedPayload(RisingSeries(v)), FramePayload(RisingSeries(v))}

\* the payloads of ScanPayloads that are failures: a fetch error, an empty
\* payload, a frame on which the computation raises
IsFailure(p) == p.kind = "raise" \/ Len(p.df) = 0 \/ ~p.cols

\* what analyze_stock returns for ticker t in a scan, one value per payload
TaskOutcomes ==
    [v \in Variants |-> [t \in Tickers |->
        { AnalyzeStock(v, t, p) : p \in ScanPayloads(v) }]]

\* bug variant of MaxWorkers: the pool is built with the fixed size, not the argument
MaxWorkers_Fixed(v, threads) == POOL_SIZE_APP

\* ThreadPoolExecutor(max_workers=max_threads)  /  ThreadPoolExecutor(max_workers=50)
MaxWorkers(v, threads) == IF v = "streamlit_app" THEN threads ELSE POOL_SIZE_APP

ProgressEvery(v) ==
    IF v = "streamlit_app" THEN PROGRESS_EVERY_STREAMLIT ELSE PROGRESS_EVERY_APP

\* the futures occupying a worker thread
Executing == { i \in DOMAIN fut : fut[i].state \in {"running", "hung"} }

Queued == { i \in DOMAIN fut : fut[i].state = "queued" }

Finished == { i \in DOMAIN fut : fut[i].state = "finished" }

AnalyzeIdle ==
    /\ call = NoCall
    /\ apc = "idle"
    /\ ran = {}
    /\ loc = NoLocals
    /\ ret = None

Init ==
    /\ variant \in Variants
    /\ ticker_list \in SeqsUpTo(Tickers, MaxTickers)
    /\ max_threads \in IF variant = "streamlit_app" THEN 1..MaxThreads ELSE {0}
    /\ pc = "submit"
    /\ fut = [i \in 1..Len(ticker_list) |->
                [state |-> "unsubmitted", result |-> None]]
    /\ started = [i \in 1..Len(ticker_list) |-> 0]
    /\ collected = {}
    /\ results = <<>>
    /\ skipped_log = <<>>
    /\ completed = 0
    /\ bar = <<0, 1>>
    /\ AnalyzeIdle

\* executor.submit(analyze_stock, t), for the next t of ticker_list
Submit ==
    /\ pc = "submit"
    /\ \E i \in DOMAIN fut :
        /\ fut[i].state = "unsubmitted"
        /\ \A k \in 1..(i - 1) : fut[k].state # "unsubmitted"
        /\ fut' = [fut EXCEPT ![i].state = "queued"]
    /\ UNCHANGED <<variant, ticker_list, max_threads, pc, started, collected,
                   results, skipped_log, completed, bar>>
    /\ UNCHANGED avars

\* all tickers are submitted: completed = 0 and the as_completed loop begins
BeginLoop ==
    /\ pc = "submit"
    /\ \A i \in DOMAIN fut : fut[i].state # "unsubmitted"
    /\ pc' = "collect"
    /\ completed' = 0
    /\ UNCHANGED <<variant, ticker_list, max_threads, fut, started, collected,
                   results, skipped_log, bar>>
    /\ UNCHANGED avars

\* a worker thread takes the oldest queued task, if the pool has a free worker
WorkerStart(i) ==
    /\ i \in DOMAIN fut
    /\ fut[i].state = "queued"
    /\ \A k \in Queued : i <= k
    /\ Cardinality(Executing) < MaxWorkers(variant, max_threads)
    /\ fut' = [fut EXCEPT ![i].state = "running"]
    /\ started' = [started EXCEPT ![i] = @ + 1]
    /\ UNCHANGED <<variant, ticker_list, max_threads, pc, collected, results,
                   skipped_log, completed, bar>>
    /\ UNCHANGED avars

\* yf.download returns or raises, analyze_stock runs to its end and the
\* future gets its value or the exception that left analyze_stock
TaskFinishes(i) ==
    /\ i \in DOMAIN fut
    /\ fut[i].state = "running"
    /\ \E r \in TaskOutcomes[variant][ticker_list[i]] :
        fut' = [fut EXCEPT ![i] = [state |-> "finished", result |-> r]]
    /\ UNCHANGED <<variant, ticker_list, max_threads, pc, started, collected,
                   results, skipped_log, completed, bar>>
    /\ UNCHANGED avars

\* the upstream never answers: yf.download is called without a timeout of
\* the scan's own and the task stays in it
FetchHangs(i) ==
    /\ i \in DOMAIN fut
    /\ fut[i].state = "running"
    /\ fut' = [fut EXCEPT ![i].state = "hung"]
    /\ UNCHANGED <<variant, ticker_list, max_threads, pc, started, collected,
                   results, skipped_log, completed, bar>>
    /\ UNCHANGED avars

\* the progress bar after bar.empty()
BarEmpty == <<>>

\* bug variant of LogSkip: the skip record is dropped
LogSkip_Dropped(v, log, res) == log

\* skipped_log.append(res); app.py keeps no log
LogSkip(v, log, res) == IF v = "streamlit_app" THEN Append(log, res) ELSE log

\* one iteration of the as_completed loop, for a finished future
Collect(i) ==
    /\ pc = "collect"
    /\ i \in DOMAIN fut
    /\ fut[i].state = "finished"
    /\ i \notin collected
    /\ collected' = collected \cup {i}
    /\ IF IsRaised(fut[i].result)
       THEN /\ pc' = "raising"
            /\ UNCHANGED <<results, skipped_log, completed, bar>>
       ELSE /\ pc' = pc
            /\ IF IsResult(fut[i].result)
               THEN /\ results' = Append(results, fut[i].result)
                    /\ skipped_log' = skipped_log
               ELSE /\ results' = results
                    /\ skipped_log' = LogSkip(variant, skipped_log, fut[i].result)
            /\ completed' = completed + 1
            /\ bar' = IF (completed + 1) % ProgressEvery(variant) = 0
                      THEN <<completed + 1, Len(ticker_list)>>
                      ELSE bar
    /\ UNCHANGED <<variant, ticker_list, max_threads, fut, started>>
    /\ UNCHANGED avars

\* as_completed has yielded every future
EndLoop ==
    /\ pc = "collect"
    /\ collected = DOMAIN fut
    /\ pc' = "exit"
    /\ UNCHANGED <<variant, ticker_list, max_threads, fut, started, collected,
                   results, skipped_log, completed, bar>>
    /\ UNCHANGED avars

\* leaving the with block waits for every worker; then bar.empty() and
\* run_scan returns, or the exception raised in the loop leaves run_scan and
\* the bar keeps what it shows
ExitPool ==
    /\ pc \in {"exit", "raising"}
    /\ Executing = {} /\ Queued = {}
    /\ pc' = IF pc = "exit" THEN "returned" ELSE "aborted"
    /\ bar' = IF pc = "exit" THEN BarEmpty ELSE bar
    /\ UNCHANGED <<variant, ticker_list, max_threads, fut, started, collected,
                   results, skipped_log, completed>>
    /\ UNCHANGED avars

Next ==
    \/ Submit
    \/ BeginLoop
    \/ \E i \in DOMAIN fut : WorkerStart(i)
    \/ \E i \in DOMAIN fut : TaskFinishes(i)
    \/ \E i \in DOMAIN fut : FetchHangs(i)
    \/ \E i \in DOMAIN fut : Collect(i)
    \/ EndLoop
    \/ ExitPool

Spec == Init /\ [][Next]_vars

\* the scheduling of the scan: the main thread and the worker threads keep
\* running, and a fetch that can return does; nothing forces a fetch to hang
FairSpec ==
    /\ Spec
    /\ WF_vars(Submit)
    /\ WF_vars(BeginLoop)
    /\ WF_vars(EndLoop)
    /\ WF_vars(ExitPool)
    /\ \A i \in 1..MaxTickers :
        /\ WF_vars(WorkerStart(i))
        /\ WF_vars(TaskFinishes(i))
        /\ WF_vars(Collect(i))

----------------------------------------------------------------------------
(* Properties of analyze_stock, checked under AnalyzeSpec *)

Df == call.payload.df

\* the call fetched a frame with the columns the stages read
FetchedFrame == call.payload.kind = "frame" /\ call.payload.cols

LaterStages == {"baseline", "consistency", "efficiency", "diagnosis"}

\* the skip outcome of the variant for the given reason
SkipOutcome(reason) ==
    IF call.variant = "streamlit_app"
    THEN [Ticker |-> call.ticker, Reason |-> reason]
    ELSE [IsNone |-> TRUE]

\* C7: a fetched series with fewer bars than the variant's minimum (20 in
\* streamlit_app.py, 50 in app.py), the empty series included, is returned
\* as the insufficient-data skip outcome, never as a classification, and no
\* stage after the sufficiency check is evaluated.
C7_InsufficientDataSkipped ==
    (/\ call.payload.kind = "frame"
     /\ Len(Df) < (IF call.variant = "streamlit_app"
                   THEN MIN_BARS_STREAMLIT ELSE MIN_BARS_APP))
    => /\ ran \subseteq {"fetch", "sufficiency"}
       /\ apc \in {"fetch", "sufficiency", "done"}
       /\ apc = "done" => ret = SkipOutcome("No Data/Too New")

C7_Witness ==
    /\ apc = "done"
    /\ call.variant = "streamlit_app"
    /\ call.payload.kind = "frame"
    /\ Len(Df) = MIN_BARS_STREAMLIT - 1
    /\ ret = [Ticker |-> "INFY.NS", Reason |-> "No Data/Too New"]

\* the close does not change over the single-session deltas of the lookback
ConstantClose ==
    \A i \in 2..Len(Df) : Len(Df) - i < lookback => Df[i].close = Df[i - 1].close

\* price > baseline, on the locals
PriceAboveBaseline ==
    loc.current_yvwap[2] # 0
    /\ loc.price * loc.current_yvwap[2] > loc.current_yvwap[1]

\* C8: when the close is constant across the trailing lookback
\* (total_path = 0), efficiency is exactly 0 and no division fails, so the
\* ticker is never Diamond and its outcome follows from price, baseline and
\* consistency alone.
C8_FlatPathEfficiencyZero ==
    (FetchedFrame /\ ConstantClose)
    => /\ "efficiency" \in ran => loc.path = 0 /\ loc.efficiency = <<0, 1>>
       /\ (apc = "done" /\ "diagnosis" \in ran) =>
            /\ loc.status # "INSTITUTIONAL BUY"
            /\ loc.status = (IF PriceAboveBaseline /\ loc.consistency >= 50
                             THEN "WATCHLIST"
                             ELSE IF PriceAboveBaseline /\ call.variant = "streamlit_app"
                             THEN "TRENDING (Test)"
                             ELSE "NEUTRAL")
            /\ IsResult(ret) => ret.Efficiency = 0
       /\ apc = "done" =>
            /\ "Raised" \notin DOMAIN ret
            /\ "Reason" \in DOMAIN ret =>
                 ret.Reason \in {"No Data/Too New", "Illiquid", "Failed Criteria"}

C8_Witness ==
    /\ apc = "done"
    /\ FetchedFrame
    /\ ConstantClose
    /\ "efficiency" \in ran
    /\ loc.efficiency = <<0, 1>>
    /\ loc.consistency >= 60
    /\ loc.status = "WATCHLIST"
    /\ IsResult(ret)

\* the bars of the frame whose year is the year of the most recent bar
SameYearAsLast == { i \in 1..Len(Df) : Df[i].year = Df[Len(Df)].year }

\* C10: the current-year partition holds the bars whose year is the year of
\* the most recent bar, so it always holds that bar; the empty-partition
\* branch (SMA fallback, return None) is never taken, and the baseline is
\* the volume-weighted average close of the current-year bars.
C10_YearPartitionNeverEmpty ==
    "baseline" \in ran
    => /\ Len(Df) \in SameYearAsLast
       /\ loc.df_y = Cardinality(SameYearAsLast)
       /\ loc.df_y >= 1
       /\ ~loc.fallback
       /\ loc.current_yvwap =
            Ratio(SumSeq([i \in 1..Len(Df) |->
                            IF i \in SameYearAsLast
                            THEN Df[i].close * Df[i].volume ELSE 0]),
                  SumSeq([i \in 1..Len(Df) |->
                            IF i \in SameYearAsLast THEN Df[i].volume ELSE 0]))
       /\ ~(call.variant = "app" /\ apc = "done" /\ ran = {"fetch", "sufficiency",
                                                         "liquidity", "baseline"})

C10_Witness ==
    /\ "baseline" \in ran
    /\ apc = "done"
    /\ Len(Df) > 1
    /\ loc.df_y = 1
    /\ ~loc.fallback
    /\ loc.current_yvwap = <<Df[Len(Df)].close * Df[Len(Df)].volume, Df[Len(Df)].volume>>
    /\ "diagnosis" \in ran

\* C5: the label is a first-match-wins function of (price, baseline,
\* consistency, efficiency): Diamond iff price > baseline, consistency >= 60
\* and efficiency >= 0.30; else Watchlist iff price > baseline and
\* consistency >= 50; else Trending iff price > baseline (streamlit_app.py
\* only); else Neutral.  Diamond and Watchlist exclude each other, a Diamond
\* meets the Watchlist condition, and a price not above the baseline is
\* Neutral and is returned as a skip ('Failed Criteria' / None), never as
\* a result.
C5_ClassificationTable ==
    (apc = "done" /\ "diagnosis" \in ran)
    => LET above == PriceAboveBaseline
           diamond == above /\ loc.consistency >= 60
                      /\ 100 * loc.efficiency[1] >= 30 * loc.efficiency[2]
           watch == above /\ loc.consistency >= 50
       IN  /\ loc.status = "INSTITUTIONAL BUY" <=> diamond
           /\ loc.status = "WATCHLIST" <=> (~diamond /\ watch)
           /\ loc.status = "TRENDING (Test)"
                <=> (~diamond /\ ~watch /\ above /\ call.variant = "streamlit_app")
           /\ loc.status = "NEUTRAL"
                <=> (~diamond /\ ~watch /\ ~(above /\ call.variant = "streamlit_app"))
           /\ loc.status = "INSTITUTIONAL BUY" => watch
           /\ ~above => loc.status = "NEUTRAL"
           /\ loc.status = "NEUTRAL" => ret = SkipOutcome("Failed Criteria")
           /\ loc.status # "NEUTRAL" => IsResult(ret) /\ ret.Status = loc.status

C5_Witness ==
    /\ apc = "done"
    /\ "diagnosis" \in ran
    /\ loc.status = "INSTITUTIONAL BUY"
    /\ IsResult(ret)
    /\ ret.Status = "INSTITUTIONAL BUY"
    /\ loc.consistency = 60

\* the turnover floor and the price floor of the variant
TurnoverFloor ==
    IF call.variant = "streamlit_app" THEN TURNOVER_FLOOR_STREAMLIT ELSE TURNOVER_FLOOR_APP

PriceFloor == IF call.variant = "streamlit_app" THEN PRICE_FLOOR_DOC ELSE PRICE_FLOOR_APP

\* mean volume of the last 5 sessions times last close, below the floor
TurnoverBelowFloor ==
    LET k == IF Len(Df) < 5 THEN Len(Df) ELSE 5
        vols == SumSeq([i \in 1..k |-> Df[Len(Df) - k + i].volume])
    IN  vols * Df[Len(Df)].close < TurnoverFloor * k

\* C4: a ticker with sufficient history is rejected (skip, never a
\* classification) whenever its turnover is below the turnover floor or its
\* last close is below the price floor, before the baseline, consistency,
\* efficiency and classification stages run.
C4_IlliquidOrPennyRejected ==
    (/\ FetchedFrame
     /\ Len(Df) >= (IF call.variant = "streamlit_app"
                    THEN MIN_BARS_STREAMLIT ELSE MIN_BARS_APP)
     /\ (TurnoverBelowFloor \/ Df[Len(Df)].close < PriceFloor))
    => /\ ran \cap LaterStages = {}
       /\ apc = "done" => ~IsResult(ret)

\* the close rises at every single-session delta of the lookback
RisingClose ==
    /\ Len(Df) > lookback
    /\ \A i \in 2..Len(Df) : Len(Df) - i < lookback => Df[i].close > Df[i - 1].close

\* each of the last 20 sessions closes above its open
AllGreen ==
    \A i \in 1..Len(Df) : Len(Df) - i < CONSISTENCY_WINDOW => Df[i].close > Df[i].open

\* C6: a series that passes the sufficiency and liquidity checks, whose
\* last 20 sessions all close above their open, whose close rises across the
\* whole trailing lookback and ends above the baseline, has efficiency
\* net_move / total_path = 1 and is classified Diamond.
C6_MonotonicRiseIsDiamond ==
    (/\ apc = "done"
     /\ "diagnosis" \in ran
     /\ AllGreen
     /\ RisingClose
     /\ PriceAboveBaseline)
    => /\ loc.efficiency[1] = loc.efficiency[2]
       /\ loc.status = "INSTITUTIONAL BUY"

\* a monotonic, all-green rise above the baseline that is not Diamond
C6_NotDiamondReached ==
    ~(/\ apc = "done"
      /\ "diagnosis" \in ran
      /\ AllGreen
      /\ RisingClose
      /\ PriceAboveBaseline
      /\ loc.status = "WATCHLIST")

----------------------------------------------------------------------------
(* Properties of run_scan, checked under Spec and FairSpec *)

\* how many entries of sequence s satisfy Test
CountIf(s, Test(_)) == Cardinality({ i \in 1..Len(s) : Test(s[i]) })

\* C1: in streamlit_app.py, for every ticker list (empty, or with repeated
\* symbols) and every order of completion, run_scan returns results and
\* skipped_log in which each submitted ticker is accounted for exactly once,
\* as a classification record or as a skip record:
\* len(results) + len(skipped_log) = len(ticker_list).
C1_EveryTickerAccountedOnce ==
    variant = "streamlit_app"
    => /\ Len(results) + Len(skipped_log) = completed
       /\ pc \notin {"raising", "aborted"} => completed = Cardinality(collected)
       /\ \A k \in 1..Len(results) : "Status" \in DOMAIN results[k]
       /\ \A k \in 1..Len(skipped_log) : DOMAIN skipped_log[k] = {"Ticker", "Reason"}
       /\ pc = "returned" =>
            /\ Len(results) + Len(skipped_log) = Len(ticker_list)
            /\ \A t \in Tickers :
                 CountIf(results, LAMBDA r : r.Symbol = Symbol(t))
                 + CountIf(skipped_log, LAMBDA r : r.Ticker = t)
                 = CountIf(ticker_list, LAMBDA x : x = t)

C1_Witness ==
    /\ variant = "streamlit_app"
    /\ pc = "returned"
    /\ Len(ticker_list) = 3
    /\ ticker_list[1] = ticker_list[3]
    /\ Len(results) = 1
    /\ Len(skipped_log) = 2
    /\ skipped_log[1].Ticker = ticker_list[1]
    /\ skipped_log[2].Ticker = ticker_list[1]

\* analyze_stock turns every failing payload into the skip outcome of the
\* ticker: the record with the reason, or None
FailuresBecomeSkips ==
    \A v \in Variants : \A t \in Tickers : \A p \in ScanPayloads(v) :
        IsFailure(p) =>
            AnalyzeStock(v, t, p) \in
                (IF v = "streamlit_app"
                 THEN { [Ticker |-> t, Reason |-> r] :
                            r \in {"No Data/Too New", "Error: 'Volume'",
                                   "Error: timed out"} }
                 ELSE {None})

\* C2: a failure in one ticker's task (fetch error, empty payload, exception
\* during computation) never aborts the scan: analyze_stock turns it into a
\* skip outcome for that ticker only ({Ticker, Reason} / None), no exception
\* escapes analyze_stock or run_scan, and every other ticker is still
\* fetched, analyzed and collected.
C2_FailureNeverAbortsScan ==
    /\ FailuresBecomeSkips
    /\ pc \notin {"raising", "aborted"}
    /\ \A i \in DOMAIN fut :
         fut[i].state = "finished" =>
            /\ "Raised" \notin DOMAIN fut[i].result
            /\ "Ticker" \in DOMAIN fut[i].result
                 => fut[i].result.Ticker = ticker_list[i]
    /\ pc = "returned" =>
         /\ collected = 1..Len(ticker_list)
         /\ completed = Len(ticker_list)
         /\ \A i \in 1..Len(ticker_list) : fut[i].state = "finished" /\ started[i] = 1
         /\ Len(results)
              = Cardinality({ i \in 1..Len(ticker_list) : "Status" \in DOMAIN fut[i].result })

\* a scan of three tickers returned with the first one failed and skipped
\* and the two others analyzed and collected as results
C2_Witness ==
    /\ pc = "returned"
    /\ Len(ticker_list) = 3
    /\ "Status" \notin DOMAIN fut[1].result
    /\ "Status" \in DOMAIN fut[2].result
    /\ "Status" \in DOMAIN fut[3].result
    /\ Len(results) = 2

\* the concurrency limit of the variant
ConcurrencyLimit == IF variant = "streamlit_app" THEN max_threads ELSE 50

\* C3: at every moment of run_scan the number of fetch+analyze tasks
\* executing at the same time is at most the concurrency limit (max_threads
\* in streamlit_app.py, 50 in app.py) whatever the number of tickers; the
\* other tickers wait queued and each is started exactly once.
C3_BoundedConcurrency ==
    /\ Cardinality({ i \in DOMAIN fut : fut[i].state \in {"running", "hung"} })
         <= ConcurrencyLimit
    /\ \A i \in DOMAIN fut :
         /\ started[i] <= 1
         /\ started[i] = 1 <=> fut[i].state \in {"running", "hung", "finished"}
    /\ pc = "returned" => \A i \in DOMAIN fut : started[i] = 1

C3_Witness ==
    /\ variant = "streamlit_app"
    /\ Cardinality({ i \in DOMAIN fut : fut[i].state \in {"running", "hung"} }) = max_threads
    /\ Cardinality({ i \in DOMAIN fut : fut[i].state = "queued" }) >= 1
    /\ Cardinality({ i \in DOMAIN fut : fut[i].state = "finished" }) >= 1
    /\ pc = "collect"

\* C9: run_scan eventually returns with every ticker collected even when one
\* ticker's upstream fetch never returns.
C9_ScanEventuallyReturns == <>(pc = "returned" /\ collected = 1..Len(ticker_list))

====
